---- MODULE Spec2Model ----
(***************************************************************************)
(* Model of the agentkernel example HTTP server (examples/c-app/server.c,  *)
(* and its C++ twin server.cpp): one process that creates a listening      *)
(* socket, then loops accept -> handle_request -> close forever.           *)
(*                                                                         *)
(* Bytes are the integers 0..255; a C string is a sequence of bytes and    *)
(* the stack array buffer[BUFFER_SIZE] is a function on 0..BUFFER_SIZE-1.  *)
(* An element of buffer[] the program has not stored yet holds no byte of  *)
(* the program's choosing: it is kept as Indeterminate, and a statement    *)
(* that reads it has every outcome some byte in its place would give.      *)
(* The environment (clients, the kernel, the clock) is the nondeterminism  *)
(* of the actions: which request arrives, how many of its bytes the single *)
(* read returns, whether a system call fails, what time it is.             *)
(***************************************************************************)
EXTENDS Integers, Sequences, FiniteSets

VARIABLES
    pc,             \* position of the (single) thread in main/handle_request
    exit_code,      \* -1 while the process has not exited, else its exit code
    sock_state,     \* server_socket: "none", "created", "bound", "listening"
    reuseaddr,      \* whether setsockopt(SO_REUSEADDR) took effect
    backlog,        \* connections completed by clients, waiting for accept
    next_conn,      \* number of connections clients have made so far
    client_socket,  \* main's client_socket: 0 before the first accept (not yet
                    \* assigned), then a connection id (1, 2, ...) or -1
    open_fds,       \* accepted connections the server has not closed yet
    payload_id,     \* index in PayloadTable of what the current client sends
    buffer,         \* handle_request's char buffer[BUFFER_SIZE]
    bytes_read,     \* handle_request's bytes_read
    response,       \* handle_request's response, as a C string
    written,        \* the bytes handed to write() on the current connection
    calls           \* system calls made on the current client descriptor

vars == <<pc, exit_code, sock_state, reuseaddr, backlog, next_conn,
          client_socket, open_fds, payload_id, buffer, bytes_read, response,
          written, calls>>

----------------------------------------------------------------------------
(* Program constants *)

BUFFER_SIZE == 4096

LISTEN_BACKLOG == 5

EXIT_STARTUP_FAILURE == 1

NUL == 0

(* Bounds of the model *)

\* how many connections clients make in one run
MaxConnections == 2

\* length of the first TCP segment when a request arrives split in two
FirstSegment == 5

----------------------------------------------------------------------------
(* Strings of the program, as bytes *)

\* "GET /health"
HEALTH_NEEDLE == <<71, 69, 84, 32, 47, 104, 101, 97, 108, 116, 104>>

\* "HTTP/1.1 200 OK\r\nContent-Type: application/json\r\n\r\n
\*  {\"status\": \"ok\", \"timestamp\": \"%s\"}\n"
HEALTH_FORMAT == <<72, 84, 84, 80, 47, 49, 46, 49, 32, 50, 48, 48, 32, 79, 75, 13, 10, 67, 111, 110, 116, 101, 110, 116, 45, 84, 121, 112, 101, 58, 32, 97, 112, 112, 108, 105, 99, 97, 116, 105, 111, 110, 47, 106, 115, 111, 110, 13, 10, 13, 10, 123, 34, 115, 116, 97, 116, 117, 115, 34, 58, 32, 34, 111, 107, 34, 44, 32, 34, 116, 105, 109, 101, 115, 116, 97, 109, 112, 34, 58, 32, 34, 37, 115, 34, 125, 10>>

\* "HTTP/1.1 200 OK\r\nContent-Type: text/plain\r\n\r\n
\*  Hello from agentkernel sandbox!\n"
DEFAULT_FORMAT == <<72, 84, 84, 80, 47, 49, 46, 49, 32, 50, 48, 48, 32, 79, 75, 13, 10, 67, 111, 110, 116, 101, 110, 116, 45, 84, 121, 112, 101, 58, 32, 116, 101, 120, 116, 47, 112, 108, 97, 105, 110, 13, 10, 13, 10, 72, 101, 108, 108, 111, 32, 102, 114, 111, 109, 32, 97, 103, 101, 110, 116, 107, 101, 114, 110, 101, 108, 32, 115, 97, 110, 100, 98, 111, 120, 33, 10>>

----------------------------------------------------------------------------
(* Helpers *)

Min(S) == CHOOSE x \in S : \A y \in S : x <= y

Digit(d) == 48 + d

\* n in 0..99 printed with two digits, zero padded ("%02d")
TwoDigits(n) == <<Digit(n \div 10), Digit(n % 10)>>

RECURSIVE Decimal(_)
\* n >= 0 printed in decimal with no padding ("%d")
Decimal(n) == IF n < 10 THEN <<Digit(n)>>
              ELSE Append(Decimal(n \div 10), Digit(n % 10))

\* n bytes, all equal to b
Fill(n, b) == [i \in 1..n |-> b]

----------------------------------------------------------------------------
(* The clock: time(), gmtime(), strftime() *)

\* the values time(NULL) returns in the model: the epoch, the last second
\* of a leap day and the last 32-bit second
Clock == {0, 951868799, 2147483647}

\* gmtime: seconds since the epoch to broken-down UTC time
gmtime(t) ==
    LET days == t \div 86400
        secs == t % 86400
        z    == days + 719468
        era  == z \div 146097
        doe  == z - era * 146097
        yoe  == (doe - doe \div 1460 + doe \div 36524 - doe \div 146096) \div 365
        doy  == doe - (365 * yoe + yoe \div 4 - yoe \div 100)
        mp   == (5 * doy + 2) \div 153
        mon  == IF mp < 10 THEN mp + 3 ELSE mp - 9
    IN  [ tm_year |-> yoe + era * 400 + (IF mon <= 2 THEN 1 ELSE 0),
          tm_mon  |-> mon,
          tm_mday |-> doy - (153 * mp + 2) \div 5 + 1,
          tm_hour |-> secs \div 3600,
          tm_min  |-> (secs % 3600) \div 60,
          tm_sec  |-> secs % 60 ]

\* strftime(timestamp, 64, "%Y-%m-%dT%H:%M:%SZ", tm)
strftime(tm) ==
    Decimal(tm.tm_year) \o <<45>> \o TwoDigits(tm.tm_mon) \o <<45>>
        \o TwoDigits(tm.tm_mday) \o <<84>> \o TwoDigits(tm.tm_hour) \o <<58>>
        \o TwoDigits(tm.tm_min) \o <<58>> \o TwoDigits(tm.tm_sec) \o <<90>>

----------------------------------------------------------------------------
(* C string functions *)

BufferIndex == 0 .. BUFFER_SIZE - 1

Byte == 0 .. 255

\* the value of an element of an automatic array that was never stored:
\* not a byte, it stands for whichever byte the stack happens to hold there
Indeterminate == 256

\* how far a scan of the C string in buf gets on bytes the program stored:
\* the index of the first NUL or of the first element never stored
\* (BUFFER_SIZE when there is neither: the scan leaves the array)
ScanEnd(buf) ==
    CHOOSE n \in 0 .. BUFFER_SIZE :
        /\ n = BUFFER_SIZE \/ buf[n] \in {NUL, Indeterminate}
        /\ \A i \in 0 .. n - 1 : buf[i] \notin {NUL, Indeterminate}

\* strstr(buf, needle) != NULL, as the set of results the call can give.
\* Found among the stored bytes before the first NUL: TRUE.  Not found and
\* the scan ends at a stored NUL: FALSE.  Otherwise the scan runs into
\* bytes never stored (or off the array) and either result is possible.
strstr(buf, needle) ==
    LET end == ScanEnd(buf)
    IN  IF \E i \in 0 .. end - Len(needle) :
              \A j \in 1 .. Len(needle) : buf[i + j - 1] = needle[j]
        THEN {TRUE}
        ELSE IF end < BUFFER_SIZE /\ buf[end] = NUL
             THEN {FALSE}
             ELSE BOOLEAN

\* the positions of a "%s" conversion in a format string
Conversions(fmt) == {i \in 1 .. Len(fmt) - 1 : fmt[i] = 37 /\ fmt[i + 1] = 115}

\* snprintf(dst, size, fmt, arg): fmt with its "%s" replaced by arg, cut to
\* size - 1 bytes (the result is always terminated)
snprintf(size, fmt, arg) ==
    LET at   == Conversions(fmt)
        full == IF at = {} THEN fmt
                ELSE SubSeq(fmt, 1, Min(at) - 1) \o arg
                         \o SubSeq(fmt, Min(at) + 2, Len(fmt))
    IN  SubSeq(full, 1, IF Len(full) < size THEN Len(full) ELSE size - 1)

\* strlen of a C string kept as a sequence: the bytes before its first NUL
StringLength(s) == Min({i - 1 : i \in {k \in 1 .. Len(s) : s[k] = NUL}} \cup {Len(s)})

----------------------------------------------------------------------------
(* What clients send *)

\* "GET /health HTTP/1.1\r\nHost: x\r\n\r\n"
ScenarioRequest == <<71, 69, 84, 32, 47, 104, 101, 97, 108, 116, 104, 32, 72, 84, 84, 80, 47, 49, 46, 49, 13, 10, 72, 111, 115, 116, 58, 32, 120, 13, 10, 13, 10>>

\* "GET /healt"
NearMiss == <<71, 69, 84, 32, 47, 104, 101, 97, 108, 116>>

\* "POST /x "
PostPrefix == <<80, 79, 83, 84, 32, 47, 120, 32>>

\* The requests of the model: nothing at all (the peer closes at once), the
\* spec's scenario, a near miss, the needle behind other bytes, the needle
\* behind a NUL byte, the needle ending exactly at the read limit, the
\* needle cut by the read limit, and an oversized request starting with it.
PayloadTable ==
    << <<>>,
       ScenarioRequest,
       NearMiss,
       PostPrefix \o HEALTH_NEEDLE,
       <<NUL>> \o HEALTH_NEEDLE,
       Fill(BUFFER_SIZE - 1 - Len(HEALTH_NEEDLE), 97) \o HEALTH_NEEDLE,
       Fill(BUFFER_SIZE - Len(HEALTH_NEEDLE), 97) \o HEALTH_NEEDLE,
       HEALTH_NEEDLE \o Fill(BUFFER_SIZE, 97) >>

PayloadIds == 1 .. Len(PayloadTable)

\* char buffer[BUFFER_SIZE], not initialised: the frames the array can hold
\* when handle_request is entered are all of them (what the loader, libc and
\* earlier calls left on the stack differs from build to build and from run
\* to run)
InitialStack == [BufferIndex -> Byte]

\* the array at the entry of handle_request, no element stored yet
Uninitialised == [i \in BufferIndex |-> Indeterminate]

\* the frames of the running program that buf stands for: those that agree
\* with buf wherever the program has stored a byte
Frames(buf) ==
    {frame \in InitialStack :
        \A i \in BufferIndex : buf[i] \in {Indeterminate, frame[i]}}

\* perror(...) / std::cerr << ...: the message is written to stderr.  When
\* stderr is a pipe or socket whose reader is gone that write raises
\* SIGPIPE, which the program neither ignores nor handles.
StderrOutcomes == {"reported", "sigpipe"}

----------------------------------------------------------------------------
(* handle_request, statement by statement *)

\* read(client_socket, buffer, BUFFER_SIZE - 1) with avail bytes arrived:
\* the count it returns
ReadCount(avail) == IF avail < BUFFER_SIZE - 1 THEN avail ELSE BUFFER_SIZE - 1

\* the read stores the first n bytes of data at the start of buf
StoreBytes(buf, data, n) ==
    [i \in BufferIndex |-> IF i < n THEN data[i + 1] ELSE buf[i]]

\* mutant: the handler also gives up when the read returns 0
ReadFailed_OrEmpty(n) == n <= 0

\* if (bytes_read < 0) { perror("read"); return; }
ReadFailed(n) == n < 0

\* mutant: the terminator is not stored
Terminate_Missing(buf, n) == buf

\* buffer[bytes_read] = '\0';
Terminate(buf, n) == [buf EXCEPT ![n] = NUL]

\* mutant: the request must start with the needle
IsHealthCheck_PrefixOnly(buf) ==
    {\A j \in 1 .. Len(HEALTH_NEEDLE) : buf[j - 1] = HEALTH_NEEDLE[j]}

\* strstr(buffer, "GET /health") != NULL: the results the test can give
IsHealthCheck(buf) == strstr(buf, HEALTH_NEEDLE)

\* time(NULL), gmtime, strftime into timestamp[64]
get_timestamp(now) == strftime(gmtime(now))

\* the two snprintf calls into response[BUFFER_SIZE]; health is the result
\* of the strstr test
BuildResponse(health, now) ==
    IF health
    THEN snprintf(BUFFER_SIZE, HEALTH_FORMAT, get_timestamp(now))
    ELSE snprintf(BUFFER_SIZE, DEFAULT_FORMAT, <<>>)

\* write(client_socket, response, strlen(response)): the bytes handed over
WriteBytes(resp) == SubSeq(resp, 1, StringLength(resp))

----------------------------------------------------------------------------
(* Initial state: the process has just entered main *)

Init ==
    /\ pc = "socket"
    /\ exit_code = -1
    /\ sock_state = "none"
    /\ reuseaddr = FALSE
    /\ backlog = <<>>
    /\ next_conn = 0
    /\ client_socket = 0
    /\ open_fds = {}
    /\ payload_id = 0
    /\ buffer = Uninitialised
    /\ bytes_read = 0
    /\ response = <<>>
    /\ written = <<>>
    /\ calls = <<>>

----------------------------------------------------------------------------
(* main: startup *)

\* server_socket = socket(...);
\* if (server_socket < 0) { perror("socket"); exit(1); }
CreateSocket ==
    /\ pc = "socket"
    /\ \E ok \in BOOLEAN, stderr \in StderrOutcomes :
          IF ok THEN /\ sock_state' = "created"
                     /\ pc' = "setsockopt"
                     /\ exit_code' = exit_code
                ELSE /\ sock_state' = sock_state
                     /\ IF stderr = "sigpipe"
                        THEN pc' = "killed" /\ exit_code' = exit_code
                        ELSE pc' = "exited" /\ exit_code' = EXIT_STARTUP_FAILURE
    /\ UNCHANGED <<reuseaddr, backlog, next_conn, client_socket, open_fds,
                   payload_id, buffer, bytes_read, response, written, calls>>

\* setsockopt(server_socket, SOL_SOCKET, SO_REUSEADDR, ...); result ignored
SetSockOpt ==
    /\ pc = "setsockopt"
    /\ \E ok \in BOOLEAN : reuseaddr' = ok
    /\ pc' = "bind"
    /\ UNCHANGED <<exit_code, sock_state, backlog, next_conn, client_socket,
                   open_fds, payload_id, buffer, bytes_read, response,
                   written, calls>>

\* if (bind(server_socket, ...) < 0) { perror("bind"); exit(1); }
Bind ==
    /\ pc = "bind"
    /\ \E ok \in BOOLEAN, stderr \in StderrOutcomes :
          IF ok THEN /\ sock_state' = "bound"
                     /\ pc' = "listen"
                     /\ exit_code' = exit_code
                ELSE /\ sock_state' = sock_state
                     /\ IF stderr = "sigpipe"
                        THEN pc' = "killed" /\ exit_code' = exit_code
                        ELSE pc' = "exited" /\ exit_code' = EXIT_STARTUP_FAILURE
    /\ UNCHANGED <<reuseaddr, backlog, next_conn, client_socket, open_fds,
                   payload_id, buffer, bytes_read, response, written, calls>>

\* if (listen(server_socket, 5) < 0) { perror("listen"); exit(1); }
Listen ==
    /\ pc = "listen"
    /\ \E ok \in BOOLEAN, stderr \in StderrOutcomes :
          IF ok THEN /\ sock_state' = "listening"
                     /\ pc' = "announce"
                     /\ exit_code' = exit_code
                ELSE /\ sock_state' = sock_state
                     /\ IF stderr = "sigpipe"
                        THEN pc' = "killed" /\ exit_code' = exit_code
                        ELSE pc' = "exited" /\ exit_code' = EXIT_STARTUP_FAILURE
    /\ UNCHANGED <<reuseaddr, backlog, next_conn, client_socket, open_fds,
                   payload_id, buffer, bytes_read, response, written, calls>>

\* printf("C server listening on port %d\n", PORT); in the C++ build
\* std::cout << ... << std::endl.  The C message stays in the stdio buffer
\* unless stdout is a terminal; the C++ one is flushed at once, and when
\* stdout is a pipe whose reader is gone that write raises SIGPIPE.
Announce ==
    /\ pc = "announce"
    /\ \E stdout \in {"kept or written", "sigpipe"} :
          pc' = IF stdout = "sigpipe" THEN "killed" ELSE "accept"
    /\ UNCHANGED <<exit_code, sock_state, reuseaddr, backlog, next_conn,
                   client_socket, open_fds, payload_id, buffer, bytes_read,
                   response, written, calls>>

----------------------------------------------------------------------------
(* Clients *)

\* A client completes a connection to the port: the kernel queues it until
\* the server accepts it.  The queue is full when it holds more than the
\* backlog given to listen; a client that finds it full is not queued.
ClientConnect ==
    /\ sock_state = "listening"
    /\ pc \notin {"exited", "killed"}
    /\ next_conn < MaxConnections
    /\ Len(backlog) <= LISTEN_BACKLOG
    /\ next_conn' = next_conn + 1
    /\ backlog' = Append(backlog, next_conn + 1)
    /\ UNCHANGED <<pc, exit_code, sock_state, reuseaddr, client_socket,
                   open_fds, payload_id, buffer, bytes_read, response,
                   written, calls>>

----------------------------------------------------------------------------
(* main: the accept loop *)

\* client_socket = accept(server_socket, ...): blocks while no connection is
\* queued, then returns the oldest one
AcceptConnection ==
    /\ pc = "accept"
    /\ backlog # <<>>
    /\ client_socket' = Head(backlog)
    /\ backlog' = Tail(backlog)
    /\ open_fds' = open_fds \cup {Head(backlog)}
    /\ payload_id' = 0
    /\ written' = <<>>
    /\ calls' = <<>>
    /\ pc' = "accepted"
    /\ UNCHANGED <<exit_code, sock_state, reuseaddr, next_conn, buffer,
                   bytes_read, response>>

\* accept returns -1: a queued connection was aborted by its peer
\* (ECONNABORTED, the connection is gone), or the call failed for a reason
\* of the server's own (EMFILE, ENOMEM, ...: the queue is as it was)
AcceptError ==
    /\ pc = "accept"
    /\ \E aborted \in BOOLEAN :
          IF aborted THEN backlog # <<>> /\ backlog' = Tail(backlog)
                     ELSE backlog' = backlog
    /\ client_socket' = -1
    /\ pc' = "accepted"
    /\ UNCHANGED <<exit_code, sock_state, reuseaddr, next_conn, open_fds,
                   payload_id, buffer, bytes_read, response, written, calls>>

\* if (client_socket < 0) { perror("accept"); continue; }
CheckAccept ==
    /\ pc = "accepted"
    /\ \E stderr \in StderrOutcomes :
          pc' = IF client_socket >= 0 THEN "read"
                ELSE IF stderr = "sigpipe" THEN "killed" ELSE "accept"
    /\ UNCHANGED <<exit_code, sock_state, reuseaddr, backlog, next_conn,
                   client_socket, open_fds, payload_id, buffer, bytes_read,
                   response, written, calls>>

\* mutant: the connection is not closed
CloseClient_Leak ==
    /\ pc = "close"
    /\ calls' = Append(calls, "close")
    /\ payload_id' = 0
    /\ bytes_read' = 0
    /\ response' = <<>>
    /\ written' = <<>>
    /\ buffer' = Uninitialised
    /\ pc' = "accept"
    /\ UNCHANGED <<exit_code, sock_state, reuseaddr, backlog, next_conn,
                   client_socket, open_fds>>

\* handle_request has returned (its locals are gone, and so is what was in
\* flight on the connection); close(client_socket); back to while (1).  The
\* lifetime of buffer[] has ended: the next call starts with an array none
\* of whose elements is stored, whatever close, accept and the dynamic
\* linker leave in the dead frame meanwhile.
CloseClient ==
    /\ pc = "close"
    /\ open_fds' = open_fds \ {client_socket}
    /\ calls' = Append(calls, "close")
    /\ payload_id' = 0
    /\ bytes_read' = 0
    /\ response' = <<>>
    /\ written' = <<>>
    /\ buffer' = Uninitialised
    /\ pc' = "accept"
    /\ UNCHANGED <<exit_code, sock_state, reuseaddr, backlog, next_conn,
                   client_socket>>

----------------------------------------------------------------------------
(* handle_request *)

\* The single read.  PayloadTable[p] is what has reached the server from
\* the client.  The read returns what has arrived so far (all of it, or only
\* the first segment; 0 when the peer closed without sending), cut to the
\* limit; or it fails (the peer reset the connection: the kernel hands over
\* queued data before it reports an error, so a failing read had none).
\* A failed read is reported with perror("read") before the return.
\* After a successful read the terminator is stored behind the bytes read.
ReadRequest ==
    /\ pc = "read"
    /\ \E p \in PayloadIds, whole \in BOOLEAN, failed \in BOOLEAN :
          LET data  == PayloadTable[p]
              avail == IF whole \/ Len(data) < FirstSegment
                       THEN Len(data) ELSE FirstSegment
              n     == IF failed THEN -1 ELSE ReadCount(avail)
          IN  /\ failed => Len(data) = 0
              /\ payload_id' = p
              /\ bytes_read' = n
              /\ IF ReadFailed(n)
                 THEN /\ buffer' = buffer
                      /\ \E stderr \in StderrOutcomes :
                            pc' = IF stderr = "sigpipe" THEN "killed" ELSE "close"
                 ELSE /\ buffer' = Terminate(StoreBytes(buffer, data, n), n)
                      /\ pc' = "respond"
    /\ calls' = Append(calls, "read")
    /\ UNCHANGED <<exit_code, sock_state, reuseaddr, backlog, next_conn,
                   client_socket, open_fds, response, written>>

\* the strstr test and the snprintf of its branch
Respond ==
    /\ pc = "respond"
    /\ \E health \in IsHealthCheck(buffer), now \in Clock :
          response' = BuildResponse(health, now)
    /\ pc' = "write"
    /\ UNCHANGED <<exit_code, sock_state, reuseaddr, backlog, next_conn,
                   client_socket, open_fds, payload_id, buffer, bytes_read,
                   written, calls>>

\* write(client_socket, response, strlen(response)), its result ignored:
\* the kernel takes all the bytes, or only some (there is no retry), or
\* fails; the program goes on to the close alike.  A failure with EPIPE (the
\* peer has reset the connection) also raises SIGPIPE, which the program
\* neither ignores nor handles: the process is terminated by the signal.
WriteResponse ==
    /\ pc = "write"
    /\ written' = WriteBytes(response)
    /\ calls' = Append(calls, "write")
    /\ \E outcome \in {"all", "some", "error", "sigpipe"} :
          pc' = IF outcome = "sigpipe" THEN "killed" ELSE "close"
    /\ UNCHANGED <<exit_code, sock_state, reuseaddr, backlog, next_conn,
                   client_socket, open_fds, payload_id, buffer, bytes_read,
                   response>>

----------------------------------------------------------------------------

Next ==
    \/ CreateSocket
    \/ SetSockOpt
    \/ Bind
    \/ Listen
    \/ Announce
    \/ ClientConnect
    \/ AcceptConnection
    \/ AcceptError
    \/ CheckAccept
    \/ ReadRequest
    \/ Respond
    \/ WriteResponse
    \/ CloseClient

Spec == Init /\ [][Next]_vars

----------------------------------------------------------------------------
(* What the claims speak of, stated without the program's own functions *)

\* "HTTP/1.1 200 OK"
StatusLine == <<72, 84, 84, 80, 47, 49, 46, 49, 32, 50, 48, 48, 32, 79, 75>>

\* "Content-Type: application/json"
JsonHeader == <<67, 111, 110, 116, 101, 110, 116, 45, 84, 121, 112, 101, 58, 32, 97, 112, 112, 108, 105, 99, 97, 116, 105, 111, 110, 47, 106, 115, 111, 110>>

\* "Content-Type: text/plain"
PlainHeader == <<67, 111, 110, 116, 101, 110, 116, 45, 84, 121, 112, 101, 58, 32, 116, 101, 120, 116, 47, 112, 108, 97, 105, 110>>

\* "Hello from agentkernel sandbox!"
HelloBody == <<72, 101, 108, 108, 111, 32, 102, 114, 111, 109, 32, 97, 103, 101, 110, 116, 107, 101, 114, 110, 101, 108, 32, 115, 97, 110, 100, 98, 111, 120, 33>>

\* "{\"status\": \"ok\", \"timestamp\": \""
JsonOpen == <<123, 34, 115, 116, 97, 116, 117, 115, 34, 58, 32, 34, 111, 107, 34, 44, 32, 34, 116, 105, 109, 101, 115, 116, 97, 109, 112, 34, 58, 32, 34>>

\* "\"}"
JsonClose == <<34, 125>>

CRLF == <<13, 10>>

LF == <<10>>

IsDigit(b) == 48 <= b /\ b <= 57

\* YYYY-MM-DDTHH:MM:SSZ
TimestampShape(t) ==
    /\ Len(t) = 20
    /\ \A i \in {1, 2, 3, 4, 6, 7, 9, 10, 12, 13, 15, 16, 18, 19} : IsDigit(t[i])
    /\ t[5] = 45 /\ t[8] = 45 /\ t[11] = 84
    /\ t[14] = 58 /\ t[17] = 58 /\ t[20] = 90

HealthHead == StatusLine \o CRLF \o JsonHeader \o CRLF \o CRLF \o JsonOpen

HealthTail == JsonClose \o LF

\* w is the health response: status line, JSON content type, and the body
\* {"status": "ok", "timestamp": "<T>"} with a well-shaped T, then a newline
IsHealthResponse(w) ==
    /\ Len(w) >= Len(HealthHead) + Len(HealthTail)
    /\ SubSeq(w, 1, Len(HealthHead)) = HealthHead
    /\ SubSeq(w, Len(w) - Len(HealthTail) + 1, Len(w)) = HealthTail
    /\ TimestampShape(SubSeq(w, Len(HealthHead) + 1, Len(w) - Len(HealthTail)))

\* the default response: status line, plain content type, the greeting and
\* one newline
ExpectedDefault == StatusLine \o CRLF \o PlainHeader \o CRLF \o CRLF \o HelloBody \o LF

\* needle occurs in the byte sequence s, at any position
Occurs(needle, s) ==
    \E i \in 1 .. Len(s) - Len(needle) + 1 :
        \A j \in 1 .. Len(needle) : s[i + j - 1] = needle[j]

\* the bytes of s before its first NUL byte (all of s when it holds none)
BeforeNul(s) ==
    LET nuls == {k \in 1 .. Len(s) : s[k] = NUL}
    IN  IF nuls = {} THEN s
        ELSE SubSeq(s, 1, (CHOOSE k \in nuls : \A m \in nuls : k <= m) - 1)

\* for each request of the model: does it contain GET /health ?
PayloadHasNeedle == [p \in PayloadIds |-> Occurs(HEALTH_NEEDLE, PayloadTable[p])]

\* the bytes the server received: what the single read returned
Received == SubSeq(PayloadTable[payload_id], 1, bytes_read)

\* handle_request is over for the current connection: it has returned (the
\* close is next) or the process died inside it
Handled == pc \in {"close", "killed"} /\ payload_id # 0

----------------------------------------------------------------------------
(* C1 *)

\* C1 as stated: whenever the client's payload contains GET /health, at any
\* position and whatever its length, the server writes the health response.
C1_HealthForAnyPayload ==
    (Handled /\ PayloadHasNeedle[payload_id]) => IsHealthResponse(written)

\* C1 as amended: whenever the single read succeeds and the bytes it
\* returned (at most BUFFER_SIZE - 1), up to the first NUL byte among them,
\* contain GET /health at any position, the server hands the health response
\* to write: 200 OK, application/json, body with status ok and a timestamp
\* of the shape YYYY-MM-DDTHH:MM:SSZ, then a newline.
C1_HealthForReceivedNeedle ==
    (Handled /\ bytes_read >= 0 /\ Occurs(HEALTH_NEEDLE, BeforeNul(Received)))
        => IsHealthResponse(written)

\* the needle was received behind other bytes and the health response written
C1_Witness ==
    /\ pc = "close"
    /\ payload_id = 4
    /\ bytes_read = Len(PostPrefix) + Len(HEALTH_NEEDLE)
    /\ IsHealthResponse(written)

----------------------------------------------------------------------------
(* C2 *)

\* C2 as stated: when the peer closes before sending data (the read returns
\* 0), handle_request returns without writing anything, and the server
\* closes the connection and goes back to accept.
C2_NothingWrittenOnZeroBytes ==
    (payload_id # 0 /\ bytes_read = 0)
        => /\ pc = "close"
           /\ written = <<>>
           /\ calls = <<"read">>

\* C2 as amended: when the read returns 0 bytes, handle_request does not
\* return silently and the read does not end the process: the terminator is
\* stored at buffer[0], the empty request is taken for the default route and
\* the default response is handed to one write call.
C2_DefaultResponseOnZeroBytes ==
    (payload_id # 0 /\ bytes_read = 0)
        => /\ buffer[0] = NUL
           /\ pc \in {"respond", "write", "close", "killed"}
           /\ pc = "respond" => calls = <<"read">>
           /\ pc = "write" => response = ExpectedDefault
           /\ pc \in {"close", "killed"}
                 => written = ExpectedDefault /\ calls = <<"read", "write">>

\* the peer closed without sending and the default response was written
C2_Witness ==
    /\ pc = "close"
    /\ payload_id = 1
    /\ bytes_read = 0
    /\ written = ExpectedDefault

----------------------------------------------------------------------------
(* C3 *)

\* C3 as stated: for every accepted connection whose payload does not
\* contain GET /health the server writes the default response.
C3_DefaultForEveryOtherPayload ==
    (Handled /\ ~PayloadHasNeedle[payload_id]) => written = ExpectedDefault

\* C3 as amended: for every accepted connection whose read does not fail and
\* whose payload does not contain GET /health, the server hands the default
\* response to write: 200 OK, text/plain, the greeting and one newline,
\* whatever else the request (or the buffer before it) held.
C3_DefaultWhenReadSucceeds ==
    (Handled /\ bytes_read >= 0 /\ ~PayloadHasNeedle[payload_id])
        => written = ExpectedDefault

\* a near miss was read into the uninitialised array (what lies behind its
\* terminator was never stored), and answered by the default response
C3_Witness ==
    /\ pc = "close"
    /\ payload_id = 3
    /\ bytes_read = Len(NearMiss)
    /\ buffer[bytes_read + 1] = Indeterminate
    /\ written = ExpectedDefault

----------------------------------------------------------------------------
(* C4 *)

\* C4: when the read on an accepted connection fails, handle_request writes
\* nothing to it, the caller then closes it, and the loop is back at accept
\* with the process running and the listening socket as it was: the failure
\* never ends the server.
C4_ReadErrorDropsConnection ==
    [][ /\ (pc = "read" /\ pc' # pc /\ bytes_read' < 0)
            => /\ pc' = "close"
               /\ written' = <<>>
               /\ calls' = <<"read">>
               /\ exit_code' = -1
        /\ (pc = "close" /\ bytes_read < 0 /\ pc' # pc)
            => /\ pc' = "accept"
               /\ calls' = <<"read", "close">>
               /\ written' = <<>>
               /\ client_socket \notin open_fds'
               /\ sock_state' = "listening"
               /\ exit_code' = -1 ]_vars

----------------------------------------------------------------------------
(* C5 *)

\* C5: after startup, whatever the outcome of handling a connection (either
\* response, a zero-byte read, a read error, a write error), the server
\* closes that connection and returns to accept: every step taken inside
\* handle_request stays in it or reaches the close, and the close leads to
\* accept with the connection closed.
C5_AlwaysBackToAccept ==
    [][ /\ (pc \in {"read", "respond", "write"} /\ pc' # pc)
            => pc' \in {"respond", "write", "close"}
        /\ (pc = "close" /\ pc' # pc)
            => pc' = "accept" /\ client_socket \notin open_fds' ]_vars

----------------------------------------------------------------------------
(* C6 *)

\* C6: when a client sends more than the read limit, the server reads at
\* most BUFFER_SIZE - 1 bytes, stores the terminator inside the buffer, does
\* not crash, and what is written on any connection is decided by the bytes
\* received on that connection alone.
C6_OversizedIsHarmless ==
    /\ (payload_id # 0 /\ Len(PayloadTable[payload_id]) > BUFFER_SIZE - 1)
         => /\ bytes_read <= BUFFER_SIZE - 1
            /\ bytes_read \in BufferIndex
            /\ buffer[bytes_read] = NUL
            /\ pc # "killed"
    /\ (Handled /\ bytes_read >= 0)
         => IF Occurs(HEALTH_NEEDLE, BeforeNul(Received))
            THEN IsHealthResponse(written)
            ELSE written = ExpectedDefault

----------------------------------------------------------------------------
(* C7 *)

\* C7: at most one accepted connection is open in the server at any time:
\* the open one is the one being handled, none is open while the server is
\* at accept, and a client that connected meanwhile is only queued.
C7_OneConnectionAtATime ==
    /\ Cardinality(open_fds) <= 1
    /\ \A c \in open_fds : c = client_socket
    /\ pc = "accept" => open_fds = {}
    /\ \A i \in 1 .. Len(backlog) : backlog[i] \notin open_fds

\* one connection is being handled while a second client waits in the queue
C7_Witness ==
    /\ pc = "respond"
    /\ open_fds = {1}
    /\ backlog = <<2>>

----------------------------------------------------------------------------
(* C8 *)

\* C8: the process exits by itself only at startup and only with code 1: a
\* step of socket, bind or listen either succeeds or exits at once with
\* code 1; accept is only ever reached with the socket listening; and once
\* the socket listens, the process never exits and the socket stays open.
C8_ExitOnlyAtStartup ==
    [][ /\ (pc \in {"socket", "bind", "listen"} /\ pc' # pc)
            => IF sock_state' = sock_state
               THEN pc' = "exited" /\ exit_code' = EXIT_STARTUP_FAILURE
               ELSE pc' # "exited" /\ exit_code' = -1
        /\ (pc' = "exited" /\ pc # "exited") => pc \in {"socket", "bind", "listen"}
        /\ exit_code' # -1 => (pc' = "exited" /\ exit_code' = EXIT_STARTUP_FAILURE)
        /\ pc' \in {"accept", "accepted"} => sock_state' = "listening"
        /\ sock_state = "listening"
            => (sock_state' = "listening" /\ pc' # "exited" /\ exit_code' = -1) ]_vars

----------------------------------------------------------------------------
(* C9 *)

\* C9: when accept fails, the server does not call handle_request and closes
\* no client descriptor in that iteration, leaves the listening socket as it
\* is, and goes straight back to accept; the process keeps running.
C9_AcceptFailureRetries ==
    [][ /\ (pc = "accept" /\ pc' = "accepted" /\ client_socket' < 0)
            => /\ open_fds' = open_fds
               /\ sock_state' = sock_state
               /\ calls' = calls
               /\ exit_code' = -1
        /\ (pc = "accepted" /\ client_socket < 0 /\ pc' # pc)
            => /\ pc' = "accept"
               /\ open_fds' = open_fds
               /\ calls' = calls
               /\ buffer' = buffer
               /\ written' = written
               /\ sock_state' = "listening"
               /\ exit_code' = -1 ]_vars

----------------------------------------------------------------------------
(* C10 *)

\* C10: every accepted connection goes Reading -> Responding -> Closed, or
\* Reading -> Closed on a read error: one read, at most one write after it,
\* and one close after both, on every way out of handle_request.
C10_ReadWriteClose ==
    [][ /\ calls' # calls
            => calls' \in { <<>>, <<"read">>, <<"read", "write">>,
                            <<"read", "close">>, <<"read", "write", "close">> }
        /\ (pc \in {"read", "respond", "write"} /\ pc' \notin {"read", "respond", "write"})
            => pc' = "close"
        /\ (pc = "close" /\ pc' # pc)
            => calls' \in { <<"read", "close">>, <<"read", "write", "close">> } ]_vars

====
